---- MODULE Spec2Model ----
(***************************************************************************)
(* Model of src/src/chunk_type.rs: the PNG chunk type, a 4-byte value with *)
(* two constructors (TryFrom<[u8; 4]>, FromStr), five predicates and a     *)
(* Display implementation.                                                 *)
(*                                                                         *)
(* A text (&str) is a sequence of Unicode scalar values; its bytes are its *)
(* UTF-8 encoding.  A tag is a sequence of 4 bytes, indexed 1..4 here and  *)
(* 0..3 in the source.  A call that panics yields a result of kind "Panic".*)
(***************************************************************************)
EXTENDS Integers, Sequences, FiniteSets

VARIABLES call, argBytes, argText, res, flags, shown

vars == <<call, argBytes, argText, res, flags, shown>>

(* Bound on the number of characters of the texts handed to from_str. *)
MaxLen == 5

(* The byte values the raw inputs are drawn from: both sides of every      *)
(* boundary of A-Z and a-z, a digit, NUL, and two bytes that are not ASCII. *)
ByteSample == {0, 49, 64, 65, 82, 90, 91, 96, 97, 116, 122, 123, 128, 255}

(* The characters the texts are drawn from: R, t, 1, and characters whose  *)
(* UTF-8 encodings take 2, 3 and 4 bytes (U+00E9, U+20AC, U+1F600).         *)
CharSample == {82, 116, 49, 233, 8364, 128512}

Texts == UNION {[1..n -> CharSample] : n \in 0..MaxLen}

RawInputs == [1..4 -> ByteSample]

(* ---------------------------------------------------------------------- *)
(* Results                                                                 *)
(* ---------------------------------------------------------------------- *)

TooLong == "Chunk type must be 4 bytes long."

InvalidCharacter == "Chunk type must only consist of ASCII letters."

Ok(t) == [kind |-> "Ok", tag |-> t, err |-> "none"]

Err(e) == [kind |-> "Err", tag |-> <<>>, err |-> e]

Panic == [kind |-> "Panic", tag |-> <<>>, err |-> "none"]

NoResult == [kind |-> "None", tag |-> <<>>, err |-> "none"]

(* ---------------------------------------------------------------------- *)
(* Character classes, as u8 / char compute them                            *)
(* ---------------------------------------------------------------------- *)

is_ascii_uppercase(b) == b >= 65 /\ b <= 90

is_ascii_lowercase(b) == b >= 97 /\ b <= 122

is_ascii_alphabetic(b) == is_ascii_uppercase(b) \/ is_ascii_lowercase(b)

(* ---------------------------------------------------------------------- *)
(* UTF-8: &str -> bytes (as_bytes) and bytes -> &str (from_utf8)           *)
(* ---------------------------------------------------------------------- *)

encode_utf8(c) ==
    IF c < 128 THEN <<c>>
    ELSE IF c < 2048 THEN <<192 + (c \div 64), 128 + (c % 64)>>
    ELSE IF c < 65536
         THEN <<224 + (c \div 4096), 128 + ((c \div 64) % 64), 128 + (c % 64)>>
    ELSE <<240 + (c \div 262144), 128 + ((c \div 4096) % 64),
           128 + ((c \div 64) % 64), 128 + (c % 64)>>

RECURSIVE as_bytes(_)
as_bytes(s) ==
    IF s = <<>> THEN <<>> ELSE encode_utf8(Head(s)) \o as_bytes(Tail(s))

str_len(s) == Len(as_bytes(s))

(* Width of the well-formed UTF-8 sequence starting at bs[i]; 0 if none. *)
utf8_width(bs, i) ==
    LET n == Len(bs)
        b0 == bs[i]
        c(k, lo, hi) == i + k <= n /\ bs[i + k] >= lo /\ bs[i + k] <= hi
    IN  IF b0 < 128 THEN 1
        ELSE IF b0 >= 194 /\ b0 <= 223
             THEN IF c(1, 128, 191) THEN 2 ELSE 0
        ELSE IF b0 = 224
             THEN IF c(1, 160, 191) /\ c(2, 128, 191) THEN 3 ELSE 0
        ELSE IF (b0 >= 225 /\ b0 <= 236) \/ b0 = 238 \/ b0 = 239
             THEN IF c(1, 128, 191) /\ c(2, 128, 191) THEN 3 ELSE 0
        ELSE IF b0 = 237
             THEN IF c(1, 128, 159) /\ c(2, 128, 191) THEN 3 ELSE 0
        ELSE IF b0 = 240
             THEN IF c(1, 144, 191) /\ c(2, 128, 191) /\ c(3, 128, 191)
                  THEN 4 ELSE 0
        ELSE IF b0 >= 241 /\ b0 <= 243
             THEN IF c(1, 128, 191) /\ c(2, 128, 191) /\ c(3, 128, 191)
                  THEN 4 ELSE 0
        ELSE IF b0 = 244
             THEN IF c(1, 128, 143) /\ c(2, 128, 191) /\ c(3, 128, 191)
                  THEN 4 ELSE 0
        ELSE 0

decode_at(bs, i, w) ==
    IF w = 1 THEN bs[i]
    ELSE IF w = 2 THEN (bs[i] - 192) * 64 + (bs[i + 1] - 128)
    ELSE IF w = 3
         THEN (bs[i] - 224) * 4096 + (bs[i + 1] - 128) * 64 + (bs[i + 2] - 128)
    ELSE (bs[i] - 240) * 262144 + (bs[i + 1] - 128) * 4096
         + (bs[i + 2] - 128) * 64 + (bs[i + 3] - 128)

(* from_utf8: Ok(text) when bs is well-formed UTF-8, Err otherwise.  The   *)
(* result is [ok, text]; acc is the text decoded so far.                   *)
RECURSIVE from_utf8_at(_, _, _)
from_utf8_at(bs, i, acc) ==
    IF i > Len(bs) THEN [ok |-> TRUE, text |-> acc]
    ELSE LET w == utf8_width(bs, i)
         IN  IF w = 0 THEN [ok |-> FALSE, text |-> <<>>]
             ELSE from_utf8_at(bs, i + w, Append(acc, decode_at(bs, i, w)))

from_utf8(bs) == from_utf8_at(bs, 1, <<>>)

(* ---------------------------------------------------------------------- *)
(* ChunkType                                                               *)
(* ---------------------------------------------------------------------- *)

bytes(t) == t

is_critical(t) == is_ascii_uppercase(bytes(t)[1])

is_public(t) == is_ascii_uppercase(bytes(t)[2])

is_reserved_bit_valid(t) == is_ascii_uppercase(bytes(t)[3])

is_safe_to_copy_upper(t) == is_ascii_uppercase(bytes(t)[4])

is_safe_to_copy(t) == is_ascii_lowercase(bytes(t)[4])

(* for i in lo..hi, source index i is bytes(t)[i + 1] *)
RECURSIVE is_valid_loop(_, _, _)
is_valid_loop(t, i, hi) ==
    IF i >= hi THEN TRUE
    ELSE IF ~is_ascii_alphabetic(bytes(t)[i + 1]) \/ ~is_reserved_bit_valid(t)
         THEN FALSE
    ELSE is_valid_loop(t, i + 1, hi)

is_valid_all_four(t) == is_valid_loop(t, 0, 4)

is_valid(t) == is_valid_loop(t, 0, 3)

RECURSIVE try_from_loop(_, _, _)
try_from_loop(bs, i, hi) ==
    IF i >= hi THEN Ok(bs)
    ELSE IF ~is_ascii_alphabetic(bs[i + 1]) THEN Err(InvalidCharacter)
    ELSE try_from_loop(bs, i + 1, hi)

try_from_all_four(bs) == try_from_loop(bs, 0, 4)

try_from_skip_first(bs) == try_from_loop(bs, 1, 3)

try_from(bs) == try_from_loop(bs, 0, 3)

RECURSIVE chars_all_alphabetic(_)
chars_all_alphabetic(s) ==
    IF s = <<>> THEN TRUE
    ELSE IF ~is_ascii_alphabetic(Head(s)) THEN FALSE
    ELSE chars_all_alphabetic(Tail(s))

(* bytes.clone_from_slice(src) on a [u8; 4]: panics unless src has 4 bytes *)
clone_from_slice(src) == IF Len(src) # 4 THEN Panic ELSE Ok(src)

from_str_char_count(s) ==
    IF Len(s) > 4 THEN Err(TooLong)
    ELSE IF ~chars_all_alphabetic(s) THEN Err(InvalidCharacter)
    ELSE clone_from_slice(as_bytes(s))

from_str_three(s) ==
    IF str_len(s) > 3 THEN Err(TooLong)
    ELSE IF ~chars_all_alphabetic(s) THEN Err(InvalidCharacter)
    ELSE clone_from_slice(as_bytes(s))

from_str(s) ==
    IF str_len(s) > 4 THEN Err(TooLong)
    ELSE IF ~chars_all_alphabetic(s) THEN Err(InvalidCharacter)
    ELSE clone_from_slice(as_bytes(s))

(* Display::fmt through to_string: the text, or a panic from expect() *)
render(bs) ==
    LET r == from_utf8(bs)
    IN  IF r.ok THEN [kind |-> "Ok", text |-> r.text]
        ELSE [kind |-> "Panic", text |-> <<>>]

fmt_first_three(t) == render(SubSeq(t, 1, 3))

fmt(t) == render(t)

(* ---------------------------------------------------------------------- *)
(* The state machine: one construction, then queries on the tag            *)
(* ---------------------------------------------------------------------- *)

Init ==
    /\ call = "none"
    /\ argBytes = <<>>
    /\ argText = <<>>
    /\ res = NoResult
    /\ flags = {}
    /\ shown = {}

TryFrom ==
    /\ call = "none"
    /\ \E bs \in RawInputs :
          /\ argBytes' = bs
          /\ res' = try_from(bs)
    /\ call' = "try_from"
    /\ UNCHANGED <<argText, flags, shown>>

FromStr ==
    /\ call = "none"
    /\ \E s \in Texts :
          /\ argText' = s
          /\ res' = from_str(s)
    /\ call' = "from_str"
    /\ UNCHANGED <<argBytes, flags, shown>>

Inspect ==
    /\ res.kind = "Ok"
    /\ flags = {}
    /\ flags' = {[valid    |-> is_valid(res.tag),
                  critical |-> is_critical(res.tag),
                  public   |-> is_public(res.tag),
                  reserved |-> is_reserved_bit_valid(res.tag),
                  safe     |-> is_safe_to_copy(res.tag)]}
    /\ UNCHANGED <<call, argBytes, argText, res, shown>>

ToString ==
    /\ res.kind = "Ok"
    /\ shown = {}
    /\ shown' = {fmt(res.tag)}
    /\ UNCHANGED <<call, argBytes, argText, res, flags>>

Next == TryFrom \/ FromStr \/ Inspect \/ ToString

Spec == Init /\ [][Next]_vars

(* Any value of the type: ChunkType(b) for every [u8; 4] b, then queries *)
InitAny ==
    /\ call = "literal"
    /\ argBytes \in RawInputs
    /\ argText = <<>>
    /\ res = Ok(argBytes)
    /\ flags = {}
    /\ shown = {}

NextAny == Inspect \/ ToString

SpecAny == InitAny /\ [][NextAny]_vars

(* ---------------------------------------------------------------------- *)
(* Vocabulary of the properties                                            *)
(* ---------------------------------------------------------------------- *)

Upper == 65..90

Lower == 97..122

Letters == Upper \cup Lower

Constructed == call \in {"try_from", "from_str"} /\ res.kind = "Ok"

AllLetters(s) == \A i \in 1..Len(s) : s[i] \in Letters

ZeroPad(s) == [i \in 1..4 |-> IF i <= Len(s) THEN s[i] ELSE 0]

(* Number of bytes of the UTF-8 encoding of a character *)
CharWidth(c) == IF c <= 127 THEN 1 ELSE IF c <= 2047 THEN 2
                ELSE IF c <= 65535 THEN 3 ELSE 4

RECURSIVE ByteLen(_)
ByteLen(s) == IF s = <<>> THEN 0 ELSE CharWidth(Head(s)) + ByteLen(Tail(s))

(* ---------------------------------------------------------------------- *)
(* Properties                                                              *)
(* ---------------------------------------------------------------------- *)

(* C1: from_str on a text of at most 4 ASCII letters returns a tag whose   *)
(* bytes are the text's characters followed by zero bytes.                 *)
C1_ShortTextZeroPadded ==
    (call = "from_str" /\ Len(argText) <= 4 /\ AllLetters(argText))
        => res = Ok(ZeroPad(argText))

(* C2: rendering a tag returned by try_from or from_str never aborts: it   *)
(* completes and yields a string.                                          *)
C2_RenderNeverAborts ==
    Constructed => \A r \in shown : r.kind = "Ok"

(* C3 (as stated): from_str on a text with a character that is not an      *)
(* ASCII letter fails with InvalidCharacter, whatever the text's length.   *)
C3_NonLetterAnyLength ==
    (call = "from_str" /\ ~AllLetters(argText))
        => res = Err(InvalidCharacter)

(* C3 (amended): from_str on a text of at most 4 bytes with a character    *)
(* that is not an ASCII letter fails with InvalidCharacter.                *)
C3_NonLetterWithinFourBytes ==
    (call = "from_str" /\ ~AllLetters(argText) /\ ByteLen(argText) <= 4)
        => res = Err(InvalidCharacter)

C3_Witness ==
    /\ call = "from_str"
    /\ ~AllLetters(argText)
    /\ ByteLen(argText) = 4
    /\ Len(argText) = 2
    /\ res = Err(InvalidCharacter)

(* C4 (as stated): from_str fails with TooLong for every text of more than *)
(* 4 characters, and never for a text of at most 4 characters.             *)
C4_TooLongCountsCharacters ==
    call = "from_str"
        => /\ Len(argText) > 4 => res = Err(TooLong)
           /\ Len(argText) <= 4 => res # Err(TooLong)

(* C4 (amended): from_str fails with TooLong exactly when the text's UTF-8 *)
(* encoding has more than 4 bytes, hence for every text of more than 4     *)
(* characters, and also for shorter texts of multi-byte characters.        *)
C4_TooLongCountsBytes ==
    call = "from_str"
        => /\ res = Err(TooLong) <=> ByteLen(argText) > 4
           /\ Len(argText) > 4 => res = Err(TooLong)

C4_Witness ==
    /\ call = "from_str"
    /\ Len(argText) <= 4
    /\ ByteLen(argText) > 4
    /\ res = Err(TooLong)

(* C5: try_from succeeds exactly when bytes 0, 1 and 2 are ASCII letters,  *)
(* whatever byte 3 is; on success bytes() is the input, otherwise the      *)
(* result is the InvalidCharacter error and no tag.                        *)
C5_TryFromFirstThree ==
    call = "try_from"
        => IF \A i \in 1..3 : argBytes[i] \in Letters
           THEN res.kind = "Ok" /\ bytes(res.tag) = argBytes
           ELSE res = Err(InvalidCharacter)

C5_Witness ==
    /\ call = "try_from"
    /\ argBytes[4] \notin Letters
    /\ res.kind = "Ok"
    /\ bytes(res.tag) = argBytes

C7_FlagsByCase ==
    Constructed =>
        \A f \in flags :
            /\ {f.critical, f.public, f.reserved, f.safe} \subseteq BOOLEAN
            /\ f.critical <=> res.tag[1] \in Upper
            /\ f.public <=> res.tag[2] \in Upper
            /\ f.reserved <=> res.tag[3] \in Upper
            /\ f.safe <=> res.tag[4] \in Lower

C7_Witness ==
    /\ call = "try_from"
    /\ res.kind = "Ok"
    /\ res.tag[4] \notin Letters
    /\ \E f \in flags : ~f.safe /\ f.critical /\ ~f.public

(* C8: a text of exactly 4 ASCII letters, made a tag by from_str and       *)
(* rendered back to text, yields the same text.                            *)
C8_RoundTrip ==
    (call = "from_str" /\ Len(argText) = 4 /\ AllLetters(argText))
        => /\ res.kind = "Ok"
           /\ \A r \in shown : r = [kind |-> "Ok", text |-> argText]

C8_Witness ==
    /\ call = "from_str"
    /\ Len(argText) = 4
    /\ AllLetters(argText)
    /\ shown = {[kind |-> "Ok", text |-> argText]}

(* C9: on a constructed tag, is_valid() is true exactly when all four      *)
(* bytes are ASCII letters.                                                *)
C9_IsValidAllLetters ==
    Constructed =>
        \A f \in flags : f.valid <=> \A i \in 1..4 : res.tag[i] \in Letters

====
